---- MODULE Spec2Model ----
(***************************************************************************)
(* Hand tracking app: the tracking window (App.tsx), the vision service    *)
(* (visionService.ts), the actuator server (mouseServer.cjs) and the       *)
(* robotjs wrapper (mouseService.cjs).                                     *)
(*                                                                         *)
(* Coordinates: a landmark coordinate is an integer number of hundredths   *)
(* of the unit square, so that 0.05 is 5, 0.25 is 25, and "times 100"      *)
(* yields the same integer read as a percentage.  null is <<>> for tuples  *)
(* and 0 for resource handles.                                             *)
(***************************************************************************)
EXTENDS Integers, Sequences, FiniteSets, TLC

\* ------------------------------------------------------------------ bounds
\* start requests made in one behaviour (each may create a socket and a
\* stream): when the session control is studied, when the loop is studied
LifeStarts == 2
LoopStarts == 1
\* largest video timestamp (frames the camera delivers in one behaviour):
\* for the session control, for the loop, for the loop with the actuator
LifeTime == 1
LoopTime == 7
E2ETime == 7
\* cap of missingFramesRef
MaxMissing == 7
\* records in flight between the tracking window and the actuator
MaxWire == 1
\* messages the actuator receives in one behaviour
MaxRecv == 6
\* calls of MouseService.click and rightClick in one behaviour
MaxPulses == 3
\* messages the actuator receives in one behaviour when any payload may come
MaxAnyRecv == 3
\* start requests and largest video timestamp when the tracking window is
\* studied without its peers
SessionStarts == 1
SessionTime == 1
\* largest video timestamp when the vision service is polled on its own
VisionTime == 3
\* how far from the wrist, in hundredths, the landmarks of the hands shown
\* to the classifiers on their own are placed
GeoReach == 2

\* how many half-frames beyond the unit square, on each side, the hands
\* shown to detect's box and cursor computation are placed
BoxSpan == 1

\* how far, in percent, beyond the screen the cursor records handed to
\* MouseService.moveCursor lie
PointerSpan == 2

\* messages received by the actuator when the order of its moves is checked
MaxOrderRecv == 3

\* classifications made when the classifier is asked again
MaxReplies == 3

\* clients connected to the actuator at once, and the messages they send
MaxConns == 2

MaxConnRecv == 3

\* messages of the broadcast channel waiting for, or posted by, a mini window
MaxBc == 2

\* messages received by the server of src/services
MaxOldRecv == 3

\* ------------------------------------------------------- types (types.ts)
HandGesture == {"OPEN", "CLOSED", "UNKNOWN"}

HandFacing == {"FRONT", "BACK", "UNKNOWN"}

TrackerStatus == {"IDLE", "CONNECTING", "ACTIVE", "ERROR"}

\* ---------------------------------------------- visionService.ts, geometry
Min2(a, b) == IF a < b THEN a ELSE b

Max2(a, b) == IF a > b THEN a ELSE b

\* the for-loop of detect folded over landmarks i..20; acc = <<xmin,ymin,xmax,ymax>>
RECURSIVE BoxScan(_, _, _)
BoxScan(lm, i, acc) ==
  IF i > 20 THEN acc
  ELSE LET p == lm[i]
           xmin == IF p[1] < acc[1] THEN p[1] ELSE acc[1]
           xmax == IF p[1] > acc[3] THEN p[1] ELSE acc[3]
           ymin == IF p[2] < acc[2] THEN p[2] ELSE acc[2]
           ymax == IF p[2] > acc[4] THEN p[2] ELSE acc[4]
       IN BoxScan(lm, i + 1, <<xmin, ymin, xmax, ymax>>)

padding == 5

\* the padded box left unclamped
BoxOfUnclamped(lm, score) ==
  LET s == BoxScan(lm, 0, <<100, 100, 0, 0>>)
  IN <<s[1] - padding, s[2] - padding, s[3] + padding, s[4] + padding, score>>

\* box of detect: scan from (1,1,0,0), pad, clamp to [0,1], x100, confidence
BoxOf(lm, score) ==
  LET s == BoxScan(lm, 0, <<100, 100, 0, 0>>)
  IN <<Max2(0, s[1] - padding), Max2(0, s[2] - padding),
       Min2(100, s[3] + padding), Min2(100, s[4] + padding), score>>

\* squared distance; sqrt is monotone, so < on distances is < on squares
Dist2(p, q) == (p[1] - q[1]) * (p[1] - q[1]) + (p[2] - q[2]) * (p[2] - q[2])

fingers == << <<8, 6>>, <<12, 10>>, <<16, 14>>, <<20, 18>> >>

\* a tie counted as curled
CurledOrTied(lm, f) == Dist2(lm[f[1]], lm[0]) <= Dist2(lm[f[2]], lm[0])

Curled(lm, f) == Dist2(lm[f[1]], lm[0]) < Dist2(lm[f[2]], lm[0])

curledCount(lm) == Cardinality({i \in 1..4 : Curled(lm, fingers[i])})

\* a gesture left undecided when one or two fingers are curled
detectGestureUnsure(lm) ==
  IF curledCount(lm) >= 3 THEN "CLOSED"
  ELSE IF curledCount(lm) = 0 THEN "OPEN" ELSE "UNKNOWN"

detectGesture(lm) == IF curledCount(lm) >= 3 THEN "CLOSED" ELSE "OPEN"

\* the side of the pinky knuckle on which the index knuckle lies
crossZSideways(lm) == lm[5][1] - lm[17][1]

crossZ(lm) ==
  LET v1 == <<lm[5][1] - lm[0][1], lm[5][2] - lm[0][2]>>
      v2 == <<lm[17][1] - lm[0][1], lm[17][2] - lm[0][2]>>
  IN (v1[1] * v2[2]) - (v1[2] * v2[1])

\* the rule of the right hand applied to both hands
detectFacingRight(lm, handedness) ==
  IF crossZ(lm) < 0 THEN "FRONT" ELSE "BACK"

detectFacing(lm, handedness) ==
  IF handedness = "Right"
  THEN (IF crossZ(lm) < 0 THEN "FRONT" ELSE "BACK")
  ELSE (IF crossZ(lm) > 0 THEN "FRONT" ELSE "BACK")

yOffset == -25

\* the cursor kept inside the frame
CursorOfClamped(lm) == <<lm[0][1], Max2(0, lm[0][2] + yOffset)>>

CursorOf(lm) == <<lm[0][1], lm[0][2] + yOffset>>

\* a poll that was not admitted reported as a processed frame without a hand
NotProcessedAsNoHand ==
  [box |-> <<>>, gesture |-> "UNKNOWN", facing |-> "UNKNOWN", cursor |-> <<>>,
   processed |-> TRUE]

\* the result literals of detect
NotProcessed ==
  [box |-> <<>>, gesture |-> "UNKNOWN", facing |-> "UNKNOWN", cursor |-> <<>>,
   processed |-> FALSE]

\* a frame without a hand reported as not processed
NoHandSkipped ==
  [box |-> <<>>, gesture |-> "UNKNOWN", facing |-> "UNKNOWN", cursor |-> <<>>,
   processed |-> FALSE]

NoHandResult ==
  [box |-> <<>>, gesture |-> "UNKNOWN", facing |-> "UNKNOWN", cursor |-> <<>>,
   processed |-> TRUE]

\* the classification of one landmarker result r (detect, lines 113-167)
Classify(r) ==
  IF r.kind = "hand"
  THEN [box |-> BoxOf(r.landmarks, r.score),
        gesture |-> detectGesture(r.landmarks),
        facing |-> detectFacing(r.landmarks, r.handedness),
        cursor |-> CursorOf(r.landmarks),
        processed |-> TRUE]
  ELSE NoHandResult

\* ------------------------------------------- what the landmarker may return
\* an upright hand: wrist w, index side at -s (s = 1 or -1), fingers up;
\* curl = number of curled non-thumb fingers (tips folded below the PIPs)
HandAt(w, s, curl) ==
  LET P(dx, dy) == <<w[1] + s * dx, w[2] + dy>>
      Tip(k, dx) == IF k <= curl THEN P(dx, -15) ELSE P(dx, -40)
  IN [i \in 0..20 |->
       CASE i = 0 -> w
         [] i = 1 -> P(-12, -5)
         [] i = 2 -> P(-16, -10)
         [] i = 3 -> P(-18, -15)
         [] i = 4 -> P(-20, -20)
         [] i = 5 -> P(-10, -20)
         [] i = 6 -> P(-10, -30)
         [] i = 7 -> P(-10, -35)
         [] i = 8 -> Tip(1, -10)
         [] i = 9 -> P(-3, -22)
         [] i = 10 -> P(-3, -32)
         [] i = 11 -> P(-3, -37)
         [] i = 12 -> Tip(2, -3)
         [] i = 13 -> P(4, -22)
         [] i = 14 -> P(4, -31)
         [] i = 15 -> P(4, -36)
         [] i = 16 -> Tip(3, 4)
         [] i = 17 -> P(10, -20)
         [] i = 18 -> P(10, -28)
         [] i = 19 -> P(10, -32)
         [] OTHER -> Tip(4, 10)]

Hand(lm, h) == [kind |-> "hand", landmarks |-> lm, handedness |-> h, score |-> 90]

\* the frames the camera may show: no hand, a frame on which the landmarker
\* throws, a fist shown palm first, a fist shown back first, an open hand
Frames == {"none", "throw", "fistFront", "fistBack", "openFront"}

LandmarkerResult(f) ==
  CASE f = "fistFront" -> Hand(HandAt(<<50, 70>>, -1, 4), "Right")
    [] f = "fistBack" -> Hand(HandAt(<<50, 70>>, 1, 4), "Right")
    [] f = "openFront" -> Hand(HandAt(<<40, 20>>, 1, 1), "Left")
    [] OTHER -> [kind |-> f]

\* detect's classification of each frame, computed once
Classified == [f \in Frames |-> Classify(LandmarkerResult(f))]


\* ------------------------------------------------------------------- state
VARIABLES
  \* App.tsx, tracking window: React state and refs
  status, statusRef, boundingBox, gesture, facing, cursor, errorMsg,
  isMouseConnected, missingFramesRef, wsRef, streamRef, requestRef,
  visionServiceRef,
  \* VisionService fields
  handLandmarker, lastVideoTime,
  \* browser: sockets, camera streams, pending timeouts, the video element,
  \* the startTracking invocations suspended at an await
  wsState, tracks, timers, startPc, srcObject, onloadedmetadata, videoTime,
  \* status mirrored into the mini window (STATUS_UPDATE)
  miniStatus,
  \* records sent by the tracking window, not yet received by the actuator
  wire,
  \* mouseServer.cjs and mouseService.cjs
  prevGesture, robot, releaseTimers,
  \* history: what the actuator received and when it clicked
  recvLog, clickLog,
  \* history: last frame with a box and the no-hand run since, the last
  \* handler that ran, whether a stop ran after the last start request
  held, run, last, stoppedSince,
  \* history: 1 once a CLOSED record was sent, 2 once the hand was then lost
  \* past the grace period, 3 while the CLOSED record sent after that is in
  \* flight; 0 again when the socket or the session changes
  rearm,
  \* the classifier applied on its own: the hand it is shown, its answer
  shown, answer,
  \* history: the payloads the actuator received, whole and in arrival
  \* order, and the hands classified so far, each with its classification
  received, replies,
  \* a window opened with ?mode=mini: its App instance, the messages of the
  \* broadcast channel waiting to be delivered to it and those it posted
  miniWin, bcIn, bcOut

appVars ==
  <<status, statusRef, boundingBox, gesture, facing, cursor, errorMsg,
    isMouseConnected, missingFramesRef, wsRef, streamRef, requestRef,
    visionServiceRef>>

visionVars == <<handLandmarker, lastVideoTime>>

envVars ==
  <<wsState, tracks, timers, startPc, srcObject, onloadedmetadata, videoTime,
    miniStatus>>

serverVars == <<prevGesture, robot, releaseTimers, recvLog, clickLog>>

histVars == <<held, run, last, stoppedSince, rearm>>

geoVars == <<shown, answer, received, replies>>

miniVars == <<miniWin, bcIn, bcOut>>

vars ==
  <<appVars, visionVars, envVars, wire, serverVars, histVars, geoVars,
    miniVars>>

Slots == 1..Max2(Max2(LifeStarts, LoopStarts), SessionStarts)

\* the handles setTimeout may return: each completed start adds one chain
TimerIds == 1..(Max2(Max2(LifeStarts, LoopStarts), SessionStarts) + 2)

\* what a handler did, for the properties that speak of handlers; for a
\* handler that polls the vision service also what it polled with (ready:
\* the video was ready; loaded, time, prevTime: handLandmarker, the video
\* time and lastVideoTime at the call; frame: what the landmarker was shown,
\* "-" if it was not run) and what came back (thrown, result)
Did(name, det, upd, snd) ==
  [name |-> name, detect |-> det, updated |-> upd, sent |-> snd,
   ready |-> FALSE, loaded |-> FALSE, time |-> -1, prevTime |-> -1,
   frame |-> "-", thrown |-> FALSE, result |-> NotProcessed, missed |-> 0]

InitApp ==
  /\ status = "IDLE"
  /\ statusRef = "IDLE"
  /\ boundingBox = <<>>
  /\ gesture = "UNKNOWN"
  /\ facing = "UNKNOWN"
  /\ cursor = <<>>
  /\ errorMsg = FALSE
  /\ isMouseConnected = FALSE
  /\ missingFramesRef = 0
  /\ wsRef = 0
  /\ streamRef = 0
  /\ requestRef = 0
  /\ visionServiceRef = FALSE
  /\ handLandmarker = FALSE
  /\ lastVideoTime = -1
  /\ wsState = [i \in Slots |-> "none"]
  /\ tracks = [i \in Slots |-> "none"]
  /\ timers = {}
  /\ startPc = [i \in Slots |-> "unused"]
  /\ srcObject = 0
  /\ onloadedmetadata = 0
  /\ videoTime = 0
  /\ miniStatus = "IDLE"
  /\ wire = <<>>
  /\ held = NotProcessed
  /\ run = -1
  /\ last = Did("init", FALSE, FALSE, FALSE)
  /\ stoppedSince = FALSE
  /\ rearm = 0

InitServer ==
  /\ prevGesture = "UNKNOWN"
  /\ robot = <<>>
  /\ releaseTimers = <<>>
  /\ recvLog = <<>>
  /\ clickLog = <<>>

\* no classification has been asked for
NoAnswer == [fn |-> "none", value |-> "none"]

\* the mini window before its first effect ran: isMiniMode is false
\* (useState(false), line 31), no handler on the channel, no session;
\* stage is how far an invocation of startTracking has got
InitMini ==
  /\ miniWin = [isMiniMode |-> FALSE, mounted |-> FALSE, status |-> "IDLE",
                stage |-> "none", socket |-> FALSE, camera |-> FALSE,
                loop |-> FALSE]
  /\ bcIn = <<>>
  /\ bcOut = <<>>

InitGeo ==
  /\ shown = [kind |-> "none"]
  /\ answer = NoAnswer
  /\ received = <<>>
  /\ replies = <<>>

Init == InitApp /\ InitServer /\ InitGeo /\ InitMini

\* ----------------------------- visionService.ts, the classifiers on their own
\* offsets from the wrist at which finger tips and PIP joints are placed:
\* GeoReach points along one axis and one on the other axis, at the same
\* distance as the farthest of them
FingerOffsets ==
  {<<0, -d>> : d \in 1..GeoReach} \cup {<<GeoReach, 0>>}

\* offsets from the wrist at which the index and pinky MCP joints are placed
KnuckleOffsets == (-GeoReach..GeoReach) \X (-GeoReach..GeoReach)

GeoWrist == <<50, 60>>

At(o) == <<GeoWrist[1] + o[1], GeoWrist[2] + o[2]>>

\* hands that differ in the tips and PIP joints of the four fingers
GestureHands ==
  {Hand([HandAt(GeoWrist, 1, 0) EXCEPT
           ![8] = At(f[1]), ![6] = At(f[2]), ![12] = At(f[3]),
           ![10] = At(f[4]), ![16] = At(f[5]), ![14] = At(f[6]),
           ![20] = At(f[7]), ![18] = At(f[8])], "Right") :
     f \in [1..8 -> FingerOffsets]}

\* hands of either handedness that differ in the two MCP joints
FacingHands ==
  {Hand([HandAt(GeoWrist, 1, 0) EXCEPT ![5] = At(k[1]), ![17] = At(k[2])], h) :
     k \in KnuckleOffsets \X KnuckleOffsets, h \in {"Left", "Right"}}

\* coordinates inside, on and near the edges of, and outside the unit square
BoxCoords == {50 * k + d : k \in (-BoxSpan)..(2 + BoxSpan), d \in {0, 3}}

\* upright open hands with the wrist at any such point and the tip of the
\* middle finger at any other
BoxHands ==
  {Hand([HandAt(w, 1, 0) EXCEPT ![12] = t], "Right") :
     w \in BoxCoords \X BoxCoords, t \in BoxCoords \X BoxCoords}

InitGeometry ==
  /\ InitApp
  /\ InitServer
  /\ shown \in GestureHands \cup FacingHands
  /\ answer = NoAnswer
  /\ received = <<>>
  /\ replies = <<>>
  /\ InitMini

\* detectGesture applied to the hand shown
ApplyGesture ==
  /\ shown.kind = "hand"
  /\ answer' = [fn |-> "detectGesture", value |-> detectGesture(shown.landmarks)]
  /\ UNCHANGED <<appVars, visionVars, envVars, wire, serverVars, histVars,
                 shown, received, replies,
                 miniVars>>

\* detectFacing applied to the hand shown
ApplyFacing ==
  /\ shown.kind = "hand"
  /\ answer' = [fn |-> "detectFacing",
                value |-> detectFacing(shown.landmarks, shown.handedness)]
  /\ UNCHANGED <<appVars, visionVars, envVars, wire, serverVars, histVars,
                 shown, received, replies,
                 miniVars>>

\* detectFacing applied to the landmarks shown, once as a Left hand and once
\* as a Right hand
ApplyFacingBoth ==
  /\ shown.kind = "hand"
  /\ answer' = [fn |-> "detectFacingBoth",
                value |-> [Left |-> detectFacing(shown.landmarks, "Left"),
                           Right |-> detectFacing(shown.landmarks, "Right")]]
  /\ UNCHANGED <<appVars, visionVars, envVars, wire, serverVars, histVars,
                 shown, received, replies,
                 miniVars>>

\* the classification of detect applied to the hand shown
ApplyDetect ==
  /\ shown.kind = "hand"
  /\ answer' = [fn |-> "detect", value |-> Classify(shown)]
  /\ UNCHANGED <<appVars, visionVars, envVars, wire, serverVars, histVars,
                 shown, received, replies,
                 miniVars>>



\* --------------------------------- visionService.ts called by any client
\* a gate that looks at the model only
AdmittedAlways(loaded, now, lastTime) == loaded

\* VisionService.detect, lines 103-108: the frame is classified
Admitted(loaded, now, lastTime) == loaded /\ now # lastTime

\* VisionService.initialize resolves
Initialize ==
  /\ ~handLandmarker
  /\ handLandmarker' = TRUE
  /\ UNCHANGED <<appVars, lastVideoTime, envVars, wire, serverVars, histVars>>
  /\ UNCHANGED <<geoVars, miniVars>>

\* VisionService.close
Close ==
  /\ handLandmarker
  /\ handLandmarker' = FALSE
  /\ UNCHANGED <<appVars, lastVideoTime, envVars, wire, serverVars, histVars>>
  /\ UNCHANGED <<geoVars, miniVars>>

\* the video handed to detect advances to its next frame
NextFrame(T) ==
  /\ videoTime < T
  /\ videoTime' = videoTime + 1
  /\ UNCHANGED <<appVars, visionVars, wsState, tracks, timers, startPc,
                 srcObject, onloadedmetadata, miniStatus, wire, serverVars,
                 histVars>>
  /\ UNCHANGED <<geoVars, miniVars>>

\* VisionService.detect(video), lines 102-168; r is what the landmarker
\* returns (or throws) if it is run
Detect(F) ==
  \E r \in F :
    LET admitted == Admitted(handLandmarker, videoTime, lastVideoTime)
        thrown == admitted /\ r = "throw"
        res == IF admitted /\ ~thrown THEN Classified[r] ELSE NotProcessed
    IN /\ lastVideoTime' = IF admitted THEN videoTime ELSE lastVideoTime
       /\ last' = [Did("detect", TRUE, FALSE, FALSE) EXCEPT
                     !.ready = TRUE,
                     !.loaded = handLandmarker,
                     !.time = videoTime,
                     !.prevTime = lastVideoTime,
                     !.frame = IF admitted THEN r ELSE "-",
                     !.thrown = thrown,
                     !.result = res]
       /\ UNCHANGED <<appVars, handLandmarker, envVars, wire, serverVars,
                      held, run, stoppedSince, rearm>>
       /\ UNCHANGED <<geoVars, miniVars>>

NextVision ==
  \/ Initialize
  \/ Close
  \/ NextFrame(VisionTime)
  \/ Detect(Frames)

SpecVision == Init /\ [][NextVision]_vars

\* ------------------------------------------------------ App.tsx, the loop
\* window.setTimeout returns a handle no pending timeout holds
NewTimer(base) ==
  CHOOSE t \in 1..(Cardinality(base) + 2) :
    /\ t \notin base
    /\ t # requestRef
    /\ \A u \in 1..(t - 1) : u \in base \/ u = requestRef

\* a loop that also gives up while the socket is not open
LoopReturnsOffline(sref) ==
  sref = "ERROR" \/ sref = "IDLE" \/ wsRef = 0 \/ wsState[wsRef] # "open"

\* line 52: the loop returns at once in these states
LoopReturns(sref) == sref = "ERROR" \/ sref = "IDLE"

\* the grace period cut one frame short
GraceOverShort(missing) == missing >= 5

\* line 74: the grace period is over
GraceOver(missing) == missing > 5

\* the record of lines 66-70
Record(res) ==
  [kind |-> "object", cursor |-> res.cursor, gesture |-> res.gesture,
   facing |-> res.facing]

\* a send on whatever socket wsRef holds
WsIsOpenAny == wsRef # 0

\* line 65: the socket of wsRef is OPEN
WsIsOpen == wsRef # 0 /\ wsState[wsRef] = "open"

\* loop(), called with statusRef = sref while the pending timeouts are base;
\* ready is videoRef.current.readyState >= 2 and r what the landmarker
\* returns (or throws) if it is called
\* a count that a frame with a box leaves as it is
MissingKept(hasBox, noHand, count) == IF noHand THEN count + 1 ELSE count

\* lines 64 and 73: missingFramesRef.current after a call of the loop
Missing(hasBox, noHand, count) ==
  IF hasBox THEN 0 ELSE IF noHand THEN count + 1 ELSE count

\* a loop that sets no timeout after the landmarker threw
RearmedUnlessThrown(base, id, thrown) ==
  IF thrown THEN base ELSE base \cup {id}

\* line 89, after the try/catch: the pending timeouts once the loop has set
\* the next one
Rearmed(base, id, thrown) == base \cup {id}

Loop(name, sref, base, ready, r) ==
  IF LoopReturns(sref)
  THEN /\ timers' = base
       /\ last' = Did(name, FALSE, FALSE, FALSE)
       /\ UNCHANGED <<requestRef, boundingBox, gesture, facing, cursor,
                      missingFramesRef, lastVideoTime, wire, held, run,
                      rearm>>
  ELSE
    LET calls == ready /\ visionServiceRef
        admitted == calls /\ Admitted(handLandmarker, videoTime, lastVideoTime)
        thrown == admitted /\ r = "throw"
        res == IF admitted /\ ~thrown THEN Classified[r] ELSE NotProcessed
        hasBox == res.processed /\ res.box # <<>>
        noHand == res.processed /\ res.box = <<>>
        missing == Missing(hasBox, noHand, missingFramesRef)
        clears == noHand /\ GraceOver(missing)
        sends == hasBox /\ WsIsOpen
        id == NewTimer(base)
    IN /\ noHand => missingFramesRef < MaxMissing
       /\ sends => Len(wire) < MaxWire
       /\ lastVideoTime' = IF admitted THEN videoTime ELSE lastVideoTime
       /\ boundingBox' = IF hasBox THEN res.box
                         ELSE IF clears THEN <<>> ELSE boundingBox
       /\ gesture' = IF hasBox THEN res.gesture
                     ELSE IF clears THEN "UNKNOWN" ELSE gesture
       /\ facing' = IF hasBox THEN res.facing
                    ELSE IF clears THEN "UNKNOWN" ELSE facing
       /\ cursor' = IF hasBox THEN res.cursor
                    ELSE IF clears THEN <<>> ELSE cursor
       /\ missingFramesRef' = missing
       /\ wire' = IF sends THEN Append(wire, Record(res)) ELSE wire
       /\ timers' = Rearmed(base, id, thrown)
       /\ requestRef' = id
       /\ held' = IF hasBox THEN res ELSE held
       /\ run' = IF hasBox THEN 0
                 ELSE IF noHand /\ run >= 0 THEN run + 1 ELSE run
       /\ last' = [Did(name, calls, hasBox \/ clears, sends) EXCEPT
                     !.ready = ready,
                     !.frame = IF admitted THEN r ELSE "-",
                     !.thrown = thrown,
                     !.result = res,
                     !.missed = IF hasBox THEN missingFramesRef ELSE 0]
       /\ rearm' = IF sends
                   THEN (IF res.gesture # "CLOSED" THEN 0
                         ELSE IF rearm = 2 /\ wire = <<>> THEN 3 ELSE 1)
                   ELSE IF hasBox THEN 0
                   ELSE IF clears /\ rearm = 1 /\ gesture = "CLOSED" THEN 2
                   ELSE rearm

\* readyState >= 2 needs a source on the video element
Readiness == IF srcObject # 0 THEN BOOLEAN ELSE {FALSE}

\* a timeout set by line 89 fires
Tick(t, F) ==
  /\ t \in timers
  /\ \E ready \in Readiness, r \in F :
       Loop("tick", statusRef, timers \ {t}, ready, r)
  /\ UNCHANGED <<status, statusRef, errorMsg, isMouseConnected, wsRef,
                 streamRef, visionServiceRef, handLandmarker, wsState, tracks,
                 startPc, srcObject, onloadedmetadata, videoTime, miniStatus,
                 serverVars, stoppedSince>>
  /\ UNCHANGED <<geoVars, miniVars>>

\* ------------------------------------------- App.tsx, start, stop, failure
\* WebSocket.close()
Closed(st) == IF st \in {"connecting", "open"} THEN "closing" ELSE st

\* a stop that forgets setGesture and setCursor
StopBodyPartial ==
  /\ timers' = IF requestRef # 0 THEN timers \ {requestRef} ELSE timers
  /\ requestRef' = 0
  /\ tracks' = IF streamRef # 0 THEN [tracks EXCEPT ![streamRef] = "stopped"]
               ELSE tracks
  /\ streamRef' = 0
  /\ wsState' = IF wsRef # 0 THEN [wsState EXCEPT ![wsRef] = Closed(@)]
                ELSE wsState
  /\ wsRef' = 0
  /\ boundingBox' = <<>>
  /\ gesture' = gesture
  /\ facing' = "UNKNOWN"
  /\ cursor' = cursor
  /\ statusRef' = "IDLE"

\* stopTracking, lines 164-181 (the window is not in mini mode)
StopBody ==
  /\ timers' = IF requestRef # 0 THEN timers \ {requestRef} ELSE timers
  /\ requestRef' = 0
  /\ tracks' = IF streamRef # 0 THEN [tracks EXCEPT ![streamRef] = "stopped"]
               ELSE tracks
  /\ streamRef' = 0
  /\ wsState' = IF wsRef # 0 THEN [wsState EXCEPT ![wsRef] = Closed(@)]
                ELSE wsState
  /\ wsRef' = 0
  /\ boundingBox' = <<>>
  /\ gesture' = "UNKNOWN"
  /\ facing' = "UNKNOWN"
  /\ cursor' = <<>>
  /\ statusRef' = "IDLE"

\* the status React commits after a handler that called setStatus with
\* these values in this order
Committed(sets) == sets[Len(sets)]

StopTracking(name) ==
  /\ StopBody
  /\ status' = Committed(<<"IDLE">>)
  /\ run' = -1
  /\ last' = Did(name, FALSE, FALSE, FALSE)
  /\ stoppedSince' = TRUE
  /\ rearm' = 0
  /\ UNCHANGED <<errorMsg, isMouseConnected, missingFramesRef,
                 visionServiceRef, visionVars, startPc, srcObject,
                 onloadedmetadata, videoTime, miniStatus, wire, serverVars,
                 held>>
  /\ UNCHANGED <<geoVars, miniVars>>

\* the Stop button of ControlPanel is shown while tracking
PanelStop ==
  /\ status \in {"ACTIVE", "CONNECTING"}
  /\ StopTracking("stop")

\* the Stop button of MiniView is shown while its mirrored status is ACTIVE
BcStop ==
  /\ miniStatus = "ACTIVE"
  /\ StopTracking("stop")

\* startTracking up to its first await, lines 104-117, as invocation i
StartTracking(i) ==
  /\ i \in Slots
  /\ startPc[i] = "unused"
  /\ \A j \in 1..(i - 1) : startPc[j] # "unused"
  /\ errorMsg' = FALSE
  /\ status' = Committed(<<"CONNECTING">>)
  /\ statusRef' = "CONNECTING"
  /\ boundingBox' = <<>>
  /\ gesture' = "UNKNOWN"
  /\ facing' = "UNKNOWN"
  /\ cursor' = <<>>
  /\ missingFramesRef' = 0
  /\ visionServiceRef' = TRUE
  /\ startPc' = [startPc EXCEPT ![i] = "init"]
  /\ run' = -1
  /\ last' = Did("start", FALSE, FALSE, FALSE)
  /\ stoppedSince' = FALSE
  /\ rearm' = 0
  /\ UNCHANGED <<isMouseConnected, wsRef, streamRef, requestRef, visionVars,
                 wsState, tracks, timers, srcObject, onloadedmetadata,
                 videoTime, miniStatus, wire, serverVars, held>>
  /\ UNCHANGED <<geoVars, miniVars>>

\* the Start button of ControlPanel is shown while not tracking
PanelStart(S) ==
  /\ status \notin {"ACTIVE", "CONNECTING"}
  /\ \E i \in 1..S : StartTracking(i)

\* the Start button of MiniView is shown unless its mirrored status is ACTIVE
BcStart(S) ==
  /\ miniStatus # "ACTIVE"
  /\ \E i \in 1..S : StartTracking(i)

\* initialize() resolved: lines 119-130, up to the await of getUserMedia
InitDone(i) ==
  /\ startPc[i] = "init"
  /\ handLandmarker' = TRUE
  /\ wsState' = [wsState EXCEPT ![i] = "connecting"]
  /\ wsRef' = i
  /\ startPc' = [startPc EXCEPT ![i] = "camera"]
  /\ last' = Did("initDone", FALSE, FALSE, FALSE)
  /\ UNCHANGED <<status, statusRef, boundingBox, gesture, facing, cursor,
                 errorMsg, isMouseConnected, missingFramesRef, streamRef,
                 requestRef, visionServiceRef, lastVideoTime, tracks, timers,
                 srcObject, onloadedmetadata, videoTime, miniStatus, wire,
                 serverVars, held, run, stoppedSince, rearm>>
  /\ UNCHANGED <<geoVars, miniVars>>

\* getUserMedia resolved: lines 134-139, up to the await of loadedmetadata
CameraDone(i) ==
  /\ startPc[i] = "camera"
  /\ tracks' = [tracks EXCEPT ![i] = "live"]
  /\ streamRef' = i
  /\ srcObject' = i
  /\ onloadedmetadata' = i
  /\ startPc' = [startPc EXCEPT ![i] = "meta"]
  /\ last' = Did("cameraDone", FALSE, FALSE, FALSE)
  /\ UNCHANGED <<status, statusRef, boundingBox, gesture, facing, cursor,
                 errorMsg, isMouseConnected, missingFramesRef, wsRef,
                 requestRef, visionServiceRef, visionVars, wsState, timers,
                 videoTime, miniStatus, wire, serverVars, held, run,
                 stoppedSince, rearm>>
  /\ UNCHANGED <<geoVars, miniVars>>

\* loadedmetadata fires and resolves the promise of the invocation whose
\* resolve is the handler: lines 140-146
LoadedMetadata(F) ==
  /\ onloadedmetadata # 0
  /\ startPc[onloadedmetadata] = "meta"
  /\ srcObject # 0
  /\ tracks[srcObject] = "live"
  /\ status' = Committed(<<"ACTIVE">>)
  /\ statusRef' = "ACTIVE"
  /\ startPc' = [startPc EXCEPT ![onloadedmetadata] = "done"]
  /\ \E ready \in Readiness, r \in F :
       Loop("started", "ACTIVE", timers, ready, r)
  /\ UNCHANGED <<errorMsg, isMouseConnected, wsRef, streamRef,
                 visionServiceRef, handLandmarker, wsState, tracks, srcObject,
                 onloadedmetadata, videoTime, miniStatus, serverVars,
                 stoppedSince>>
  /\ UNCHANGED <<geoVars, miniVars>>

\* handleError, lines 184-188, reached from the catch of startTracking
HandleError ==
  /\ status' = Committed(<<"ERROR", "IDLE">>)
  /\ errorMsg' = TRUE
  /\ StopBody

\* initialize() or getUserMedia() rejected in invocation i
StartFails(i) ==
  /\ startPc[i] \in {"init", "camera"}
  /\ HandleError
  /\ startPc' = [startPc EXCEPT ![i] = "failed"]
  /\ run' = -1
  /\ last' = Did("failed", FALSE, FALSE, FALSE)
  /\ stoppedSince' = TRUE
  /\ rearm' = 0
  /\ UNCHANGED <<isMouseConnected, missingFramesRef, visionServiceRef,
                 visionVars, srcObject, onloadedmetadata, videoTime,
                 miniStatus, wire, serverVars, held>>
  /\ UNCHANGED <<geoVars, miniVars>>

\* ------------------------------------------------------------ the browser
WsOpen(i) ==
  /\ wsState[i] = "connecting"
  /\ wsState' = [wsState EXCEPT ![i] = "open"]
  /\ isMouseConnected' = TRUE
  /\ UNCHANGED <<status, statusRef, boundingBox, gesture, facing, cursor,
                 errorMsg, missingFramesRef, wsRef, streamRef, requestRef,
                 visionServiceRef, visionVars, tracks, timers, startPc,
                 srcObject, onloadedmetadata, videoTime, miniStatus, wire,
                 serverVars, held, run, last, stoppedSince>>
  /\ rearm' = 0
  /\ UNCHANGED <<geoVars, miniVars>>

\* the close event: after close(), a refused connection or a lost server
WsClose(i) ==
  /\ wsState[i] \in {"connecting", "open", "closing"}
  /\ wsState' = [wsState EXCEPT ![i] = "closed"]
  /\ isMouseConnected' = FALSE
  /\ UNCHANGED <<status, statusRef, boundingBox, gesture, facing, cursor,
                 errorMsg, missingFramesRef, wsRef, streamRef, requestRef,
                 visionServiceRef, visionVars, tracks, timers, startPc,
                 srcObject, onloadedmetadata, videoTime, miniStatus, wire,
                 serverVars, held, run, last, stoppedSince>>
  /\ rearm' = 0
  /\ UNCHANGED <<geoVars, miniVars>>

\* the camera delivers a frame
VideoFrame(T) ==
  /\ srcObject # 0
  /\ tracks[srcObject] = "live"
  /\ videoTime < T
  /\ videoTime' = videoTime + 1
  /\ UNCHANGED <<appVars, visionVars, wsState, tracks, timers, startPc,
                 srcObject, onloadedmetadata, miniStatus, wire, serverVars,
                 histVars>>
  /\ UNCHANGED <<geoVars, miniVars>>

\* the mini window receives the STATUS_UPDATE of the current status
MirrorStatus ==
  /\ miniStatus # status
  /\ miniStatus' = status
  /\ UNCHANGED <<appVars, visionVars, wsState, tracks, timers, startPc,
                 srcObject, onloadedmetadata, videoTime, wire, serverVars,
                 histVars>>
  /\ UNCHANGED <<geoVars, miniVars>>

\* a sent record leaves the window
WireOut ==
  /\ wire # <<>>
  /\ wire' = Tail(wire)
  /\ UNCHANGED <<appVars, visionVars, envVars, serverVars, histVars>>
  /\ UNCHANGED <<geoVars, miniVars>>

\* ------------------------------------------ mouseService.cjs (robotjs)
\* robot.getScreenSize()
screenSize == [width |-> 1920, height |-> 1080]

\* the scaled coordinate truncated instead of rounded
RoundScaleTrunc(v, size) == (v * size) \div 100

\* Math.round(v / 100 * size): the nearest integer, halves upwards
RoundScale(v, size) == (2 * v * size + 100) \div 200

\* MouseService.moveCursor: the robot.moveMouse call it makes
moveCursor(c) ==
  <<"move", RoundScale(c[1], screenSize.width),
    RoundScale(c[2], screenSize.height)>>

\* MouseService.click and rightClick: the button toggled down now and the
\* button toggled up by the 50 ms timeout
\* a click whose timeout releases the other button
clickWrongUp == [down |-> "left", up |-> "right"]

click == [down |-> "left", up |-> "left"]

rightClick == [down |-> "right", up |-> "right"]

\* a call of click or rightClick, appended to the calls made so far
Pulse(log, c) == Append(log, <<"down", c.down>>)

\* the timeout callback of a click runs (timeouts of equal delay run in order)
ReleaseTimer ==
  /\ releaseTimers # <<>>
  /\ robot' = Append(robot, <<"up", Head(releaseTimers)>>)
  /\ releaseTimers' = Tail(releaseTimers)
  /\ UNCHANGED <<appVars, visionVars, envVars, wire, prevGesture, recvLog,
                 clickLog, histVars>>
  /\ UNCHANGED <<geoVars, miniVars>>

\* ---------------------------------------------------------- mouseServer.cjs
\* The payload of a message is a record whose kind tells what JSON.parse
\* makes of the text: "garbage" (not JSON), "null", "value" (a number, a
\* string or a boolean), "object" (an object whose cursor, if it has one,
\* has numeric x and y) and "objectNaN" (an object whose cursor.x is not a
\* number).  A cursor of <<>> is an absent or null cursor, a gesture of
\* "undefined" an absent gesture.
\* lines 45-46: JSON.parse throws, or the destructuring of null throws
Throws(p) == p.kind \in {"garbage", "null"}

\* line 46: the properties destructured from the parsed value; a primitive
\* value has neither property
msgCursor(p) == IF p.kind = "value" THEN <<>> ELSE p.cursor

msgGesture(p) == IF p.kind = "value" THEN "undefined" ELSE p.gesture

\* a move equal to the last call made is left out
ValidCursorCoalesced(p) ==
  /\ msgCursor(p) # <<>>
  /\ p.kind # "objectNaN"
  /\ (robot = <<>> \/ robot[Len(robot)] # moveCursor(msgCursor(p)))

\* line 49: the message carries numeric coordinates
ValidCursor(p) == msgCursor(p) # <<>> /\ p.kind # "objectNaN"

\* a message of the protocol: numeric cursor and a gesture of the enumeration
WellFormed(p) ==
  ~Throws(p) /\ ValidCursor(p) /\ msgGesture(p) \in HandGesture

\* a click for every CLOSED message, no edge detection
ClickEdgeLevel(g, prev) == g = "CLOSED"

\* line 54: the click condition
ClickEdge(g, prev) == g = "CLOSED" /\ prev # "CLOSED"

\* line 56: the MouseService method called for a click of the record p
ClickCall(p) == click

\* ws.on('message'): when JSON.parse or the destructuring throws, the catch
\* leaves everything as it was; recvLog notes the gesture of a well-formed
\* message and "BAD" for any other payload
OnMessage(p) ==
  IF Throws(p)
  THEN /\ recvLog' = Append(recvLog, "BAD")
       /\ UNCHANGED <<prevGesture, robot, releaseTimers, clickLog>>
  ELSE
    LET moved == IF ValidCursor(p) THEN Append(robot, moveCursor(msgCursor(p)))
                 ELSE robot
        fires == ClickEdge(msgGesture(p), prevGesture)
        c == ClickCall(p)
    IN /\ robot' = IF fires THEN Pulse(moved, c) ELSE moved
       /\ releaseTimers' = IF fires THEN Append(releaseTimers, c.up)
                           ELSE releaseTimers
       /\ prevGesture' = msgGesture(p)
       /\ recvLog' = Append(recvLog, IF WellFormed(p) THEN msgGesture(p)
                                     ELSE "BAD")
       /\ clickLog' = IF fires
                      THEN Append(clickLog, [at |-> Len(recvLog),
                                             facing |-> p.facing,
                                             button |-> c.down])
                      ELSE clickLog

\* the payloads a client may send
ServerPayloads ==
  [kind : {"object"}, cursor : {<<50, 50>>}, gesture : HandGesture,
   facing : HandFacing]
  \cup {[kind |-> "garbage"], [kind |-> "null"]}

\* every shape of payload: the well-formed records, objects with a missing
\* or null cursor, a non-numeric cursor.x, a missing gesture or a gesture
\* outside the enumeration, primitive values, null and text that is not JSON
AnyPayloads ==
  [kind : {"object", "objectNaN"}, cursor : {<<50, 50>>, <<>>},
   gesture : HandGesture \cup {"undefined", "FIST"}, facing : {"FRONT"}]
  \cup {[kind |-> "garbage"], [kind |-> "null"], [kind |-> "value"]}

\* a message with a payload of P arrives from some client, at most N in all
ServerMsg(P, N) ==
  /\ Len(recvLog) < N
  /\ \E p \in P : OnMessage(p)
  /\ UNCHANGED <<appVars, visionVars, envVars, wire, histVars>>
  /\ UNCHANGED <<geoVars, miniVars>>

NextServer ==
  \/ ServerMsg(ServerPayloads, MaxRecv)
  \/ ReleaseTimer

SpecServer == Init /\ [][NextServer]_vars

\* the actuator receiving arbitrary payloads
NextMalformed ==
  \/ ServerMsg(AnyPayloads, MaxAnyRecv)
  \/ ReleaseTimer

SpecMalformed == Init /\ [][NextMalformed]_vars

\* payloads with either of two cursors, no cursor or a non-numeric one
OrderPayloads ==
  [kind : {"object", "objectNaN"}, cursor : {<<50, 50>>, <<10, 90>>, <<>>},
   gesture : {"OPEN", "CLOSED"}, facing : {"FRONT"}]
  \cup {[kind |-> "garbage"]}

\* a message arrives and is handled; received keeps the payload
OrderMsg ==
  /\ Len(received) < MaxOrderRecv
  /\ \E p \in OrderPayloads :
       /\ OnMessage(p)
       /\ received' = Append(received, p)
  /\ UNCHANGED <<appVars, visionVars, envVars, wire, histVars>>
  /\ UNCHANGED <<shown, answer, replies, miniVars>>

NextOrder ==
  \/ OrderMsg
  \/ ReleaseTimer

SpecOrder == Init /\ [][NextOrder]_vars

\* the sockets of wss.on('connection'), each with its own message handler
Conns == 1..MaxConns

\* well-formed records, each arriving on one of the connections
ConnPayloads ==
  [kind : {"object"}, cursor : {<<50, 50>>}, gesture : HandGesture,
   facing : {"FRONT"}, conn : Conns]

\* a message arrives on a connection and its handler runs; received keeps
\* the payload and the connection
ConnMsg ==
  /\ Len(received) < MaxConnRecv
  /\ \E p \in ConnPayloads :
       /\ OnMessage(p)
       /\ received' = Append(received, p)
  /\ UNCHANGED <<appVars, visionVars, envVars, wire, histVars>>
  /\ UNCHANGED <<shown, answer, replies, miniVars>>

NextConn ==
  \/ ConnMsg
  \/ ReleaseTimer

SpecConn == Init /\ [][NextConn]_vars

\* ------------------------------------------- App.tsx in a mini window
\* the effect of lines 198-222 runs once, after the first render: it asks
\* for isMiniMode = true and installs bc.onmessage
MiniMount ==
  /\ ~miniWin.mounted
  /\ miniWin' = [miniWin EXCEPT !.mounted = TRUE, !.isMiniMode = TRUE]
  /\ UNCHANGED <<appVars, visionVars, envVars, wire, serverVars, histVars,
                 geoVars, bcIn, bcOut>>

\* onStart / onStop of the MiniView, rendered once isMiniMode is true:
\* startTracking and stopTracking of that render post the message and
\* return (lines 94-97, 155-158)
MiniClick(type) ==
  /\ miniWin.isMiniMode
  /\ Len(bcOut) < MaxBc
  /\ bcOut' = Append(bcOut, type)
  /\ UNCHANGED <<appVars, visionVars, envVars, wire, serverVars, histVars,
                 geoVars, miniWin, bcIn>>

\* another window of the origin posts START or STOP on the channel
ChannelPost(type) ==
  /\ miniWin.mounted
  /\ Len(bcIn) < MaxBc
  /\ bcIn' = Append(bcIn, type)
  /\ UNCHANGED <<appVars, visionVars, envVars, wire, serverVars, histVars,
                 geoVars, miniWin, bcOut>>

\* the isMiniMode seen by the startTracking and stopTracking that
\* bc.onmessage calls: the handler is created by the effect with empty
\* dependencies, so it holds the functions of the first render, in which
\* isMiniMode is the initial state of line 31
HandlerIsMiniMode == FALSE

\* bc.onmessage in the mini window, lines 208-219, for START and STOP:
\* startTracking up to its first await (lines 104-117), or stopTracking
\* (lines 160-181) while a start may still be awaiting
MiniOnMessage ==
  /\ miniWin.mounted
  /\ bcIn # <<>>
  /\ bcIn' = Tail(bcIn)
  /\ miniWin' =
       IF HandlerIsMiniMode THEN miniWin
       ELSE IF Head(bcIn) = "START"
       THEN [miniWin EXCEPT !.status = "CONNECTING", !.stage = "init"]
       ELSE [miniWin EXCEPT !.status = "IDLE", !.socket = FALSE,
                            !.camera = FALSE, !.loop = FALSE]
  /\ bcOut' = IF HandlerIsMiniMode THEN Append(bcOut, Head(bcIn)) ELSE bcOut
  /\ UNCHANGED <<appVars, visionVars, envVars, wire, serverVars, histVars,
                 geoVars>>

\* initialize() resolved in the mini window: the WebSocket is created
\* (lines 119-128)
MiniInitDone ==
  /\ miniWin.stage = "init"
  /\ miniWin' = [miniWin EXCEPT !.stage = "media", !.socket = TRUE]
  /\ UNCHANGED <<appVars, visionVars, envVars, wire, serverVars, histVars,
                 geoVars, bcIn, bcOut>>

\* getUserMedia and loadedmetadata resolved in the mini window: the camera
\* is held, the status is ACTIVE and loop() has set its timeout (130-146)
MiniCameraDone ==
  /\ miniWin.stage = "media"
  /\ miniWin' = [miniWin EXCEPT !.stage = "done", !.status = "ACTIVE",
                               !.camera = TRUE, !.loop = TRUE]
  /\ UNCHANGED <<appVars, visionVars, envVars, wire, serverVars, histVars,
                 geoVars, bcIn, bcOut>>

BcTypes == {"START", "STOP"}

NextMini ==
  \/ MiniMount
  \/ \E type \in BcTypes : MiniClick(type)
  \/ \E type \in BcTypes : ChannelPost(type)
  \/ MiniOnMessage
  \/ MiniInitDone
  \/ MiniCameraDone

SpecMini == Init /\ [][NextMini]_vars

\* ------------------------------------- src/services/mouseServer.js
\* src/services/mouseService.ts: moveCursor calls robot.moveMouseSmooth and
\* click calls robot.mouseClick, a press and release in one call
smoothMoveCursor(c) ==
  <<"moveSmooth", RoundScale(c[1], screenSize.width),
    RoundScale(c[2], screenSize.height)>>

mouseClick == <<"mouseClick", "left">>

\* ws.on('message') of src/services/mouseServer.js (lines 10-23): the move
\* as in mouseServer.cjs, then a click whenever gesture === 'CLOSED'; the
\* handler keeps nothing from one message to the next
ServicesOnMessage(p) ==
  IF Throws(p)
  THEN /\ recvLog' = Append(recvLog, "BAD")
       /\ UNCHANGED <<prevGesture, robot, releaseTimers, clickLog>>
  ELSE
    LET moved == IF ValidCursor(p)
                 THEN Append(robot, smoothMoveCursor(msgCursor(p)))
                 ELSE robot
        fires == msgGesture(p) = "CLOSED"
    IN /\ robot' = IF fires THEN Append(moved, mouseClick) ELSE moved
       /\ recvLog' = Append(recvLog, IF WellFormed(p) THEN msgGesture(p)
                                     ELSE "BAD")
       /\ clickLog' = IF fires
                      THEN Append(clickLog, [at |-> Len(recvLog),
                                             facing |-> p.facing,
                                             button |-> "left"])
                      ELSE clickLog
       /\ UNCHANGED <<prevGesture, releaseTimers>>

\* the records of a tracking session with the hand at one of two places,
\* and text that is not JSON
ServicesPayloads ==
  [kind : {"object"}, cursor : {<<50, 50>>, <<10, 90>>},
   gesture : HandGesture, facing : {"FRONT", "BACK"}]
  \cup {[kind |-> "garbage"]}

ServicesMsg ==
  /\ Len(recvLog) < MaxOldRecv
  /\ \E p \in ServicesPayloads : ServicesOnMessage(p)
  /\ UNCHANGED <<appVars, visionVars, envVars, wire, histVars>>
  /\ UNCHANGED <<geoVars, miniVars>>

NextServices == ServicesMsg

SpecServices == Init /\ [][NextServices]_vars

\* the record at the head of the wire arrives
Receive ==
  /\ wire # <<>>
  /\ Len(recvLog) < MaxRecv
  /\ OnMessage(Head(wire))
  /\ wire' = Tail(wire)
  /\ rearm' = IF rearm = 3 THEN 1 ELSE rearm
  /\ last' = Did("receive", FALSE, FALSE, FALSE)
  /\ UNCHANGED <<appVars, visionVars, envVars, held, run, stoppedSince>>
  /\ UNCHANGED <<geoVars, miniVars>>

\* MouseService called directly
CallClick ==
  /\ Cardinality({i \in 1..Len(robot) : robot[i][1] = "down"}) < MaxPulses
  /\ robot' = Pulse(robot, click)
  /\ releaseTimers' = Append(releaseTimers, click.up)
  /\ UNCHANGED <<appVars, visionVars, envVars, wire, prevGesture, recvLog,
                 clickLog, histVars>>
  /\ UNCHANGED <<geoVars, miniVars>>

CallRightClick ==
  /\ Cardinality({i \in 1..Len(robot) : robot[i][1] = "down"}) < MaxPulses
  /\ robot' = Pulse(robot, rightClick)
  /\ releaseTimers' = Append(releaseTimers, rightClick.up)
  /\ UNCHANGED <<appVars, visionVars, envVars, wire, prevGesture, recvLog,
                 clickLog, histVars>>
  /\ UNCHANGED <<geoVars, miniVars>>

NextMouse ==
  \/ CallClick
  \/ CallRightClick
  \/ ReleaseTimer

\* a timeout that is due runs
SpecMouse == Init /\ [][NextMouse]_vars /\ WF_vars(ReleaseTimer)

\* the record made of the detection just computed arrives at the actuator
DeliverRecord ==
  /\ answer.fn = "detect"
  /\ recvLog = <<>>
  /\ OnMessage(Record(answer.value))
  /\ UNCHANGED <<appVars, visionVars, envVars, wire, histVars>>
  /\ UNCHANGED <<geoVars, miniVars>>

\* detect's classification asked again: the hands the camera may show in
\* turn, the hands of Frames and a hand that is half outside the frame
ReplayHands ==
  {LandmarkerResult(f) : f \in {"fistFront", "fistBack", "openFront"}}
  \cup {Hand(HandAt(<<100, 0>>, 1, 2), "Left")}

InitReplay ==
  /\ InitApp
  /\ InitServer
  /\ shown \in ReplayHands
  /\ answer = NoAnswer
  /\ received = <<>>
  /\ replies = <<>>
  /\ InitMini

\* the landmarker reports another hand
ShowHand ==
  /\ \E h \in ReplayHands : h # shown /\ shown' = h
  /\ UNCHANGED <<appVars, visionVars, envVars, wire, serverVars, histVars,
                 answer, received, replies,
                 miniVars>>

\* a classification that reports a gesture only when the classification
\* before it found the same gesture
ReplayDetectDebounced ==
  /\ Len(replies) < MaxReplies
  /\ answer' = [fn |-> "detect",
                value |-> IF /\ answer.fn = "detect"
                             /\ answer.value.gesture # Classify(shown).gesture
                          THEN [Classify(shown) EXCEPT !.gesture = "UNKNOWN"]
                          ELSE Classify(shown)]
  /\ replies' = Append(replies, <<shown, answer'.value>>)
  /\ UNCHANGED <<appVars, visionVars, envVars, wire, serverVars, histVars,
                 shown, received,
                 miniVars>>

\* the hand shown is classified; replies keeps the hand and the result
ReplayDetect ==
  /\ Len(replies) < MaxReplies
  /\ answer' = [fn |-> "detect", value |-> Classify(shown)]
  /\ replies' = Append(replies, <<shown, answer'.value>>)
  /\ UNCHANGED <<appVars, visionVars, envVars, wire, serverVars, histVars,
                 shown, received,
                 miniVars>>

NextReplay ==
  \/ ShowHand
  \/ ReplayDetect

SpecReplay == InitReplay /\ [][NextReplay]_vars

\* detect's classification on its own, and the record made of it delivered
InitBox ==
  /\ InitApp
  /\ InitServer
  /\ shown \in BoxHands
  /\ answer = NoAnswer
  /\ received = <<>>
  /\ replies = <<>>
  /\ InitMini

NextBox ==
  \/ ApplyDetect
  \/ DeliverRecord

SpecBox == InitBox /\ [][NextBox]_vars

\* the landmarks turned by a quarter-turn about the wrist:
\* (x, y) -> (-y, x) in coordinates relative to landmark 0
Turn(lm) ==
  [i \in 0..20 |-> <<lm[0][1] - (lm[i][2] - lm[0][2]),
                     lm[0][2] + (lm[i][1] - lm[0][1])>>]

\* detectFacing applied to the hand shown and to its three quarter-turns
ApplyFacingTurned ==
  /\ shown.kind = "hand"
  /\ LET h == shown.handedness
         t1 == Turn(shown.landmarks)
         t2 == Turn(t1)
         t3 == Turn(t2)
     IN answer' = [fn |-> "detectFacingTurned",
                   value |-> [plain |-> detectFacing(shown.landmarks, h),
                              turned |-> <<detectFacing(t1, h),
                                           detectFacing(t2, h),
                                           detectFacing(t3, h)>>]]
  /\ UNCHANGED <<appVars, visionVars, envVars, wire, serverVars, histVars,
                 shown, received, replies,
                 miniVars>>

\* detectFacing on its own, on the hands that differ in the MCP joints
InitFacing ==
  /\ InitApp
  /\ InitServer
  /\ shown \in FacingHands
  /\ answer = NoAnswer
  /\ received = <<>>
  /\ replies = <<>>
  /\ InitMini

NextFacing ==
  \/ ApplyFacingBoth
  \/ ApplyFacingTurned

SpecFacing == InitFacing /\ [][NextFacing]_vars

NextGeometry ==
  \/ ApplyGesture
  \/ ApplyFacing

SpecGeometry == InitGeometry /\ [][NextGeometry]_vars

\* MouseService.moveCursor on its own: the cursor records it may be given,
\* in whole percent, on and off the screen
PointerCoords == (-PointerSpan)..(100 + PointerSpan)

InitPointer ==
  /\ InitApp
  /\ InitServer
  /\ shown \in [kind : {"cursor"}, cursor : PointerCoords \X PointerCoords]
  /\ answer = NoAnswer
  /\ received = <<>>
  /\ replies = <<>>
  /\ InitMini

\* moveCursor(cursor.x, cursor.y) called once with the record shown
CallMoveCursor ==
  /\ shown.kind = "cursor"
  /\ robot = <<>>
  /\ robot' = Append(robot, moveCursor(shown.cursor))
  /\ UNCHANGED <<appVars, visionVars, envVars, wire, prevGesture,
                 releaseTimers, recvLog, clickLog, histVars>>
  /\ UNCHANGED <<geoVars, miniVars>>

NextPointer == CallMoveCursor

SpecPointer == InitPointer /\ [][NextPointer]_vars

\* the session control of the tracking window, with every source of start
\* and stop requests
LifeFrames == {"none", "fistFront"}

NextLife ==
  \/ PanelStart(LifeStarts)
  \/ BcStart(LifeStarts)
  \/ PanelStop
  \/ BcStop
  \/ \E i \in Slots : InitDone(i)
  \/ \E i \in Slots : CameraDone(i)
  \/ LoadedMetadata(LifeFrames)
  \/ \E i \in Slots : StartFails(i)
  \/ \E t \in TimerIds : Tick(t, LifeFrames)
  \/ \E i \in Slots : WsOpen(i)
  \/ \E i \in Slots : WsClose(i)
  \/ VideoFrame(LifeTime)
  \/ MirrorStatus
  \/ WireOut

SpecLife == Init /\ [][NextLife]_vars

\* the tracking window alone: starts, stops, failures and ticks with every
\* kind of frame
NextSession ==
  \/ PanelStart(SessionStarts)
  \/ PanelStop
  \/ \E i \in Slots : InitDone(i)
  \/ \E i \in Slots : CameraDone(i)
  \/ LoadedMetadata(Frames)
  \/ \E i \in Slots : StartFails(i)
  \/ \E t \in TimerIds : Tick(t, Frames)
  \/ VideoFrame(SessionTime)

SpecSession == Init /\ [][NextSession]_vars

\* a timeout that is pending fires
SpecSessionFair ==
  SpecSession /\ WF_vars(\E t \in TimerIds : Tick(t, Frames))

\* the tracking loop of one session over long runs of frames
NextLoop ==
  \/ PanelStart(LoopStarts)
  \/ \E i \in Slots : InitDone(i)
  \/ \E i \in Slots : CameraDone(i)
  \/ LoadedMetadata(Frames)
  \/ \E t \in TimerIds : Tick(t, Frames)
  \/ \E i \in Slots : WsOpen(i)
  \/ \E i \in Slots : WsClose(i)
  \/ VideoFrame(LoopTime)
  \/ WireOut

SpecLoop == Init /\ [][NextLoop]_vars

\* one tracking session and the actuator, joined by the socket
E2EFrames == {"none", "fistFront"}

NextE2E ==
  \/ PanelStart(LoopStarts)
  \/ \E i \in Slots : InitDone(i)
  \/ \E i \in Slots : CameraDone(i)
  \/ LoadedMetadata(E2EFrames)
  \/ \E t \in TimerIds : Tick(t, E2EFrames)
  \/ \E i \in Slots : WsOpen(i)
  \/ \E i \in Slots : WsClose(i)
  \/ VideoFrame(E2ETime)
  \/ Receive
  \/ ReleaseTimer

SpecE2E == Init /\ [][NextE2E]_vars

\* ================================================================ properties
Stabilized == <<boundingBox, gesture, facing, cursor>>

ClearedState == <<<<>>, "UNKNOWN", "UNKNOWN", <<>>>>

\* C1: a processed frame with a box followed by k consecutive processed
\* no-hand frames leaves the stabilized state equal to that frame's
\* detection for k = 1..5, and at k = 6 (and beyond) the state is cleared.
C1_GracePeriod ==
  /\ run \in 1..5 =>
       Stabilized = <<held.box, held.gesture, held.facing, held.cursor>>
  /\ run >= 6 => Stabilized = ClearedState

\* the sixth no-hand frame after a frame with a box has been processed
C1_Witness ==
  /\ run = 6
  /\ held.box # <<>>
  /\ held.gesture = "CLOSED"
  /\ boundingBox = <<>>
  /\ last.name = "tick"

\* the 0-based positions of the received messages at which a click is due
ExpectedClicks ==
  {i \in 0..(Len(recvLog) - 1) :
     /\ recvLog[i + 1] = "CLOSED"
     /\ (IF i = 0 THEN "UNKNOWN" ELSE recvLog[i]) # "CLOSED"}

ClickedAt == {clickLog[k].at : k \in 1..Len(clickLog)}

WellFormedLog == \A i \in 1..Len(recvLog) : recvLog[i] # "BAD"

ExampleGestures == <<"OPEN", "CLOSED", "CLOSED", "CLOSED", "OPEN", "CLOSED">>

\* C2: over any sequence of well-formed messages received from the initial
\* state, the clicks are issued for exactly the messages that are CLOSED and
\* whose predecessor is not CLOSED (the first is preceded by UNKNOWN), one
\* click each; OPEN, CLOSED, CLOSED, CLOSED, OPEN, CLOSED clicks at 1 and 5.
C2_ClickEdge ==
  WellFormedLog =>
    /\ ClickedAt = ExpectedClicks
    /\ Len(clickLog) = Cardinality(ExpectedClicks)
    /\ recvLog = ExampleGestures => ClickedAt = {1, 5}

\* the example sequence has been received and has clicked twice
C2_Witness ==
  /\ recvLog = ExampleGestures
  /\ Len(clickLog) = 2
  /\ clickLog[1].at = 1
  /\ clickLog[2].at = 5

\* C3: when the stabilized gesture was CLOSED, the hand was lost for more
\* than 5 processed frames and a CLOSED frame is then detected, the socket
\* being open throughout, the actuator clicks when that record arrives.
C3_RearmedByUnknown ==
  [][(rearm = 3 /\ Len(recvLog') = Len(recvLog) + 1)
       => Len(clickLog') = Len(clickLog) + 1]_vars

\* C4: every click fired for a FRONT record toggles the left button and
\* every click fired for a BACK record toggles the right button.
C4_ButtonByFacing ==
  \A k \in 1..Len(clickLog) :
    /\ clickLog[k].facing = "FRONT" => clickLog[k].button = "left"
    /\ clickLog[k].facing = "BACK" => clickLog[k].button = "right"

Buttons == {"left", "right"}

\* the number of toggles of button b in direction d among the first n calls
Toggles(d, b, n) == Cardinality({i \in 1..n : robot[i] = <<d, b>>})

\* C5: a click is a pulse on one button: no release is issued that is not
\* preceded by a press of the same button still held, and every press is
\* eventually followed by the release of that button.
C5_Pulse ==
  /\ [](\A b \in Buttons : \A n \in 1..Len(robot) :
          Toggles("up", b, n) <= Toggles("down", b, n))
  /\ \A b \in Buttons : \A k \in 1..MaxPulses :
       (Toggles("down", b, Len(robot)) >= k)
         ~> (Toggles("up", b, Len(robot)) >= k)

\* both buttons have been clicked and released
C5_Witness ==
  /\ releaseTimers = <<>>
  /\ \E i, j \in 1..Len(robot) :
       i < j /\ robot[i] = <<"down", "right">> /\ robot[j] = <<"up", "right">>
  /\ \E i, j \in 1..Len(robot) :
       i < j /\ robot[i] = <<"down", "left">> /\ robot[j] = <<"up", "left">>

\* C6: once stopTracking has run and no start request was made since, no
\* tick calls detect, updates the detection state or sends a record.
C6_NoWorkAfterStop ==
  (stoppedSince /\ last.name = "tick") =>
    (~last.detect /\ ~last.updated /\ ~last.sent)

\* C7: at most one connecting-or-open WebSocket and at most one live camera
\* stream exist at any time.
C7_OneSession ==
  /\ Cardinality({i \in Slots : wsState[i] \in {"connecting", "open"}}) <= 1
  /\ Cardinality({i \in Slots : tracks[i] = "live"}) <= 1

\* C8: at most one tick timer is pending at any time.
C8_OneTimer == Cardinality(timers) <= 1

Lifecycle(from, to) ==
  \/ from = to
  \/ from = "IDLE" /\ to = "CONNECTING"
  \/ from = "CONNECTING" /\ to = "ACTIVE"
  \/ to = "ERROR"
  \/ to = "IDLE"

\* C9: the status changes only from IDLE to CONNECTING, from CONNECTING to
\* ACTIVE, from any state to ERROR and from any state to IDLE.
C9_Lifecycle == [][Lifecycle(status, status')]_vars

\* C10: when the handling of a failed initialization or camera request has
\* finished, the status is ERROR, the error message is set, no timer is
\* pending, no stream is live and no socket is connecting or open.
C10_FailureTearsDown ==
  last.name = "failed" =>
    /\ status = "ERROR"
    /\ errorMsg
    /\ timers = {}
    /\ \A i \in Slots : tracks[i] # "live"
    /\ \A i \in Slots : wsState[i] \notin {"connecting", "open"}

\* C11: after stopTracking has run in the tracking window, the status is
\* IDLE, the detection state is cleared, no tick timer is pending, no camera
\* stream is live and no socket is connecting or open, whichever earlier
\* start created them.
C11_StopReleasesAll ==
  last.name = "stop" =>
    /\ status = "IDLE"
    /\ Stabilized = ClearedState
    /\ timers = {}
    /\ \A i \in Slots : tracks[i] # "live"
    /\ \A i \in Slots : wsState[i] \notin {"connecting", "open"}

\* the positions of the well-formed messages received
CleanPositions == {i \in 0..(Len(recvLog) - 1) : recvLog[i + 1] # "BAD"}

\* the gesture of the last well-formed message before position i
CleanPrev(i) ==
  LET before == {j \in CleanPositions : j < i}
  IN IF before = {} THEN "UNKNOWN"
     ELSE recvLog[(CHOOSE j \in before : \A k \in before : k <= j) + 1]

\* C12: the actuator handles every payload (text that is not JSON, null, a
\* primitive value, an object with missing fields) without failing, and the
\* well-formed messages click exactly as they would had the other payloads
\* not arrived: a well-formed message clicks iff it is CLOSED and the
\* well-formed message before it is not CLOSED.
C12_BadPayloadIgnored ==
  {i \in CleanPositions : i \in ClickedAt}
    = {i \in CleanPositions :
         recvLog[i + 1] = "CLOSED" /\ CleanPrev(i) # "CLOSED"}

\* C13: a message that is not well-formed causes no pointer move and no
\* click and leaves prevGesture unchanged.
C13_MalformedDiscarded ==
  [][(Len(recvLog') = Len(recvLog) + 1 /\ recvLog'[Len(recvLog')] = "BAD")
       => (robot' = robot /\ releaseTimers' = releaseTimers
           /\ prevGesture' = prevGesture)]_vars

\* a frame is admitted by the frame gate in this step
AdmitsFrame == lastVideoTime' # lastVideoTime

\* the socket of the session is OPEN
ChannelOpen == wsRef # 0 /\ wsState[wsRef] = "open"

\* C14: a record enters the channel only in a step that admits a frame and
\* finds the socket OPEN, and it is the record of the detection of that very
\* frame; a step that admits a frame while the socket is not OPEN transmits
\* nothing and arms the next tick.
C14_SendOnlyWhenOpen ==
  [][/\ Len(wire') > Len(wire) =>
          /\ AdmitsFrame
          /\ lastVideoTime' = videoTime
          /\ ChannelOpen
          /\ boundingBox' # <<>>
          /\ missingFramesRef' = 0
          /\ wire' = Append(wire, [kind |-> "object", cursor |-> cursor',
                                   gesture |-> gesture', facing |-> facing'])
     /\ (AdmitsFrame /\ ~ChannelOpen) =>
          /\ wire' = wire
          /\ requestRef' \in timers'
          /\ requestRef' # requestRef]_vars

\* a tick has transmitted the record of the frame it admitted
C14_Witness ==
  /\ last.name = "tick"
  /\ last.sent
  /\ ChannelOpen
  /\ wire = <<[kind |-> "object", cursor |-> cursor, gesture |-> gesture,
               facing |-> facing]>>
  /\ gesture = "OPEN"

\* the effect of an admitted frame on the detection state: a hand is taken
\* over, a missing hand is counted (and the state cleared past the grace
\* period), a frame on which the landmarker threw changes nothing
DetectionUpdated ==
  \/ /\ boundingBox' # <<>>
     /\ missingFramesRef' = 0
     /\ run' = 0
     /\ Stabilized' = <<held'.box, held'.gesture, held'.facing, held'.cursor>>
  \/ /\ missingFramesRef' = missingFramesRef + 1
     /\ \/ missingFramesRef' <= 5 /\ Stabilized' = Stabilized
        \/ missingFramesRef' > 5 /\ Stabilized' = ClearedState
  \/ /\ missingFramesRef' = missingFramesRef
     /\ Stabilized' = Stabilized

\* C15: a socket that does not open, or that closes, changes neither the
\* status nor the pending tick nor the detection state; while the session is
\* ACTIVE and the socket is not OPEN a tick stays pending, every admitted
\* frame updates the detection state and arms the next tick, and nothing is
\* sent.
C15_TransportNonFatal ==
  /\ []((statusRef = "ACTIVE" /\ ~ChannelOpen) => timers # {})
  /\ [][/\ wsState' # wsState =>
            /\ status' = status
            /\ statusRef' = statusRef
            /\ timers' = timers
            /\ Stabilized' = Stabilized
       /\ (AdmitsFrame /\ ~ChannelOpen) =>
            /\ DetectionUpdated
            /\ wire' = wire
            /\ statusRef' \notin {"IDLE", "ERROR"}
            /\ requestRef' \in timers']_vars

\* the socket closed during the session and a later tick took over a hand
C15_Witness ==
  /\ status = "ACTIVE"
  /\ wsRef # 0
  /\ wsState[wsRef] = "closed"
  /\ last.name = "tick"
  /\ last.updated
  /\ ~last.sent
  /\ boundingBox # <<>>
  /\ timers # {}
  /\ wire = <<>>

\* the gate condition of the poll noted in last
Gate == last.loaded /\ last.time # last.prevTime

\* the landmarker was run on the frame of the poll noted in last
Classifies == last.result.processed \/ last.thrown

LoopRan == requestRef' # requestRef /\ requestRef' # 0

\* C17: a poll whose frame was admitted and showed no hand returns box =
\* null with processed = true; a poll that was not admitted returns
\* processed = false; while the video is not ready the loop does not call
\* detect, nothing is thrown, the detection state, the frame gate and the
\* channel are left alone and the next tick is armed.
C17_NoHandVsNoFrame ==
  /\ [](last.name \in {"tick", "started"} =>
          /\ (last.detect /\ last.frame = "none") =>
               (last.result.box = <<>> /\ last.result.processed)
          /\ (last.detect /\ last.frame = "-") => ~last.result.processed
          /\ ~last.ready => (~last.detect /\ ~last.thrown))
  /\ [][(LoopRan /\ ~last'.ready) =>
          /\ ~last'.detect
          /\ Stabilized' = Stabilized
          /\ missingFramesRef' = missingFramesRef
          /\ lastVideoTime' = lastVideoTime
          /\ wire' = wire
          /\ requestRef' \in timers']_vars
  /\ [][(LoopRan /\ last'.detect /\ last'.frame = "none") =>
          missingFramesRef' = missingFramesRef + 1]_vars
  /\ [][(LoopRan /\ last'.detect /\ last'.frame = "-" /\ ~last'.thrown) =>
          (missingFramesRef' = missingFramesRef
           /\ Stabilized' = Stabilized)]_vars

\* a tick found the video not ready while a frame was waiting, and an
\* earlier frame had shown no hand
C17_Witness ==
  /\ last.name = "tick"
  /\ ~last.ready
  /\ ~last.detect
  /\ videoTime # lastVideoTime
  /\ missingFramesRef = 1
  /\ timers # {}

\* a detection without a box has no gesture, no facing and no cursor
NullBoxMeansUnknown(r) ==
  r.box = <<>> =>
    (r.gesture = "UNKNOWN" /\ r.facing = "UNKNOWN" /\ r.cursor = <<>>)

\* C18: in every result returned by detect and in every state of the
\* tracking window, a null box comes with gesture UNKNOWN, facing UNKNOWN
\* and a null cursor.
C18_NullBoxInvariant ==
  /\ NullBoxMeansUnknown(last.result)
  /\ NullBoxMeansUnknown([box |-> boundingBox, gesture |-> gesture,
                          facing |-> facing, cursor |-> cursor])

\* a fist had been taken over and a stop then cleared the state
C18_Witness ==
  /\ last.name = "stop"
  /\ held.box # <<>>
  /\ held.gesture = "CLOSED"
  /\ boundingBox = <<>>
  /\ gesture = "UNKNOWN"
  /\ status = "IDLE"

\* the squared distance of landmark i of the hand shown to its wrist
FromWrist2(i) ==
  LET p == shown.landmarks[i]
      w == shown.landmarks[0]
  IN (p[1] - w[1]) * (p[1] - w[1]) + (p[2] - w[2]) * (p[2] - w[2])

\* 1 if the finger with this tip and this PIP joint is curled, else 0
One(tip, pip) == IF FromWrist2(tip) < FromWrist2(pip) THEN 1 ELSE 0

\* C19: detectGesture answers CLOSED iff at least 3 of the fingers 8/6,
\* 12/10, 16/14, 20/18 have the tip strictly closer to the wrist than the
\* PIP joint, and answers OPEN otherwise.
C19_GestureRule ==
  answer.fn = "detectGesture" =>
    /\ answer.value \in {"CLOSED", "OPEN"}
    /\ answer.value = "CLOSED" <=>
         One(8, 6) + One(12, 10) + One(16, 14) + One(20, 18) >= 3

\* two fingers are curled and the other two have tip and PIP joint at
\* different places equally far from the wrist: the answer is OPEN
C19_Witness ==
  /\ answer = [fn |-> "detectGesture", value |-> "OPEN"]
  /\ One(8, 6) = 1
  /\ One(12, 10) = 1
  /\ FromWrist2(16) = FromWrist2(14)
  /\ shown.landmarks[16] # shown.landmarks[14]
  /\ FromWrist2(20) = FromWrist2(18)
  /\ shown.landmarks[20] # shown.landmarks[18]

\* crossZ of the hand shown, from its landmarks 0, 5 and 17
CrossOfShown ==
  LET w == shown.landmarks[0]
      i == shown.landmarks[5]
      k == shown.landmarks[17]
  IN (i[1] - w[1]) * (k[2] - w[2]) - (i[2] - w[2]) * (k[1] - w[1])

\* C20: for a cross product that is not zero, a Right hand is FRONT when it
\* is negative and BACK when it is positive, a Left hand BACK when it is
\* negative and FRONT when it is positive.
C20_FacingSign ==
  (answer.fn = "detectFacing" /\ CrossOfShown # 0) =>
    answer.value =
      (IF shown.handedness = "Right"
       THEN (IF CrossOfShown < 0 THEN "FRONT" ELSE "BACK")
       ELSE (IF CrossOfShown < 0 THEN "BACK" ELSE "FRONT"))

\* a Left hand with a negative cross product has been answered BACK
C20_Witness ==
  /\ answer = [fn |-> "detectFacing", value |-> "BACK"]
  /\ shown.handedness = "Left"
  /\ CrossOfShown < 0

Opposite(f) == IF f = "FRONT" THEN "BACK" ELSE "FRONT"

XsOf(lm) == {lm[i][1] : i \in 0..20}

YsOf(lm) == {lm[i][2] : i \in 0..20}

MinOf(S) == CHOOSE v \in S : \A w \in S : v <= w

MaxOf(S) == CHOOSE v \in S : \A w \in S : v >= w

\* C22: the box returned by detect for a hand has xmin <= xmax and
\* ymin <= ymax, and its four coordinates lie in [0,100].
C22_BoxOrderedInRange ==
  answer.fn = "detect" =>
    LET b == answer.value.box
    IN /\ b[1] <= b[3]
       /\ b[2] <= b[4]
       /\ \A k \in 1..4 : 0 <= b[k] /\ b[k] <= 100

C22_Witness ==
  /\ answer.fn = "detect"
  /\ MinOf(XsOf(shown.landmarks)) > 100
  /\ MaxOf(YsOf(shown.landmarks)) < 0

\* C23: the box of detect equals the padded and clamped minima and maxima
\* of the 21 points, also for points outside the unit square.
C23_BoxIsReference ==
  answer.fn = "detect" =>
    LET lm == shown.landmarks
        b == answer.value.box
    IN /\ b[1] = Max2(0, MinOf(XsOf(lm)) - 5)
       /\ b[2] = Max2(0, MinOf(YsOf(lm)) - 5)
       /\ b[3] = Min2(100, MaxOf(XsOf(lm)) + 5)
       /\ b[4] = Min2(100, MaxOf(YsOf(lm)) + 5)

\* r is v percent of size rounded to the nearest integer, halves upwards
Nearest(r, v, size) ==
  200 * r - 100 <= 2 * v * size /\ 2 * v * size < 200 * r + 100

\* C24: moveCursor issues one absolute pointer move, to the pixel nearest
\* to (x/100*W, y/100*H); on the 1920 x 1080 screen the record (50, 50)
\* moves the pointer to (960, 540).
C24_ActuatorMapping ==
  (shown.kind = "cursor" /\ robot # <<>>) =>
    /\ Len(robot) = 1
    /\ robot[1][1] = "move"
    /\ Nearest(robot[1][2], shown.cursor[1], 1920)
    /\ Nearest(robot[1][3], shown.cursor[2], 1080)
    /\ shown.cursor = <<50, 50>> => robot[1] = <<"move", 960, 540>>

C24_Witness ==
  /\ shown.kind = "cursor"
  /\ shown.cursor = <<50, 50>>
  /\ robot = << <<"move", 960, 540>> >>

\* C25: the cursor of a detection is (100*wrist.x, 100*(wrist.y - 0.25)),
\* unclamped, and the actuator moves the pointer to the pixel it maps to,
\* above the screen when the wrist is in the top quarter of the frame.
C25_CursorUnclamped ==
  LET wrist == shown.landmarks[0]
  IN /\ answer.fn = "detect" =>
          answer.value.cursor = <<wrist[1], wrist[2] - 25>>
     /\ (shown.kind = "hand" /\ recvLog # <<>>) =>
          /\ robot # <<>>
          /\ robot[1][1] = "move"
          /\ Nearest(robot[1][2], wrist[1], 1920)
          /\ Nearest(robot[1][3], wrist[2] - 25, 1080)
          /\ wrist[2] < 25 => robot[1][3] < 0

C25_Witness ==
  /\ shown.kind = "hand"
  /\ shown.landmarks[0] = <<50, 0>>
  /\ answer.fn = "detect"
  /\ answer.value.cursor = <<50, -25>>
  /\ recvLog # <<>>
  /\ robot[1] = <<"move", 960, -270>>

\* C28: turning all landmarks about the wrist by a quarter-turn, once, twice
\* or three times, leaves the result of detectFacing as it was, for the
\* Left and for the Right hand.
C28_FacingRotationInvariant ==
  answer.fn = "detectFacingTurned" =>
    \A k \in 1..3 : answer.value.turned[k] = answer.value.plain

C28_Witness ==
  /\ answer.fn = "detectFacingTurned"
  /\ shown.handedness = "Left"
  /\ crossZ(shown.landmarks) > 0
  /\ shown.landmarks[5][1] < shown.landmarks[17][1]
  /\ answer.value.plain = "FRONT"
  /\ answer.value.turned = <<"FRONT", "FRONT", "FRONT">>

IsMove(e) == e[1] = "move"

NumericCursor(p) == p.kind = "object" /\ p.cursor # <<>>

\* C26: the pointer moves issued are, in order and in number, the cursors
\* of the received messages that carry a numeric cursor.
C26_MovesInArrivalOrder ==
  LET moves == SelectSeq(robot, IsMove)
      cursors == SelectSeq(received, NumericCursor)
  IN received # <<>> =>
       /\ Len(moves) = Len(cursors)
       /\ \A i \in 1..Len(moves) :
            /\ Nearest(moves[i][2], cursors[i].cursor[1], 1920)
            /\ Nearest(moves[i][3], cursors[i].cursor[2], 1080)

C26_Witness ==
  /\ Len(received) = 3
  /\ received[1].kind = "object" /\ received[1].cursor = <<10, 90>>
  /\ received[2].kind = "object" /\ received[2].cursor = <<10, 90>>
  /\ received[3].kind = "object" /\ received[3].cursor = <<50, 50>>
  /\ SelectSeq(robot, IsMove) =
       << <<"move", 192, 972>>, <<"move", 192, 972>>, <<"move", 960, 540>> >>

C29_ServicesOneClickPerRun ==
  \A k \in 1..Len(clickLog) :
    clickLog[k].at > 0 => recvLog[clickLog[k].at] # "CLOSED"

\* a step of the loop in which detect classified a frame
Processed == lastVideoTime' # lastVideoTime /\ last'.result.processed

\* C30: a processed frame with a box sets missingFramesRef to 0 and the
\* stabilized detection to the values of that frame in the same call of the
\* loop; the box is cleared only by a processed no-hand frame that is at
\* least the sixth in a row since the last frame with a box, and while
\* fewer have passed since that frame its box stays.
C30_ResetOnBox ==
  [][/\ (Processed /\ last'.result.box # <<>>) =>
          /\ missingFramesRef' = 0
          /\ Stabilized' = <<last'.result.box, last'.result.gesture,
                             last'.result.facing, last'.result.cursor>>
     /\ (boundingBox # <<>> /\ boundingBox' = <<>>) =>
          /\ Processed
          /\ last'.result.box = <<>>
          /\ run' > 5
     /\ (run' \in 0..5 /\ held'.box # <<>>) => boundingBox' = held'.box
    ]_vars

\* a frame with a box has just ended a dropout of five no-hand frames
C30_Witness ==
  /\ last.name = "tick"
  /\ last.result.box # <<>>
  /\ last.missed = 5
  /\ missingFramesRef = 0
  /\ run = 0
  /\ boundingBox = last.result.box

\* C31: a tick whose poll was not admitted, or that found the video not
\* ready, leaves box, gesture, facing, cursor and the missing-frame count as
\* they were and sends nothing; the count therefore never exceeds the number
\* of frames the camera has delivered, however often a frame is polled.
C31_IdleTickChangesNothing ==
  /\ [][(LoopRan /\ ~last'.result.processed) =>
          /\ Stabilized' = Stabilized
          /\ missingFramesRef' = missingFramesRef
          /\ wire' = wire]_vars
  /\ [](missingFramesRef <= videoTime + 1)

\* during the grace period a tick polled the frame that was already seen
C31_Witness ==
  /\ last.name = "tick"
  /\ last.ready
  /\ last.detect
  /\ ~last.result.processed
  /\ ~last.thrown
  /\ videoTime = lastVideoTime
  /\ missingFramesRef = 3
  /\ boundingBox # <<>>

\* C32: every record in the channel has a cursor, a gesture that is OPEN or
\* CLOSED and a facing that is FRONT or BACK, and a step that sends nothing
\* new never puts a record there: none is sent for a frame without a hand,
\* within the grace period or after the state was cleared.
C32_SentRecordsComplete ==
  /\ [](\A i \in 1..Len(wire) :
          /\ wire[i].cursor # <<>>
          /\ wire[i].gesture \in {"OPEN", "CLOSED"}
          /\ wire[i].facing \in {"FRONT", "BACK"})
  /\ [][(LoopRan /\ last'.result.box = <<>>) => wire' = wire]_vars

\* the first frame with a hand after the state was cleared has been sent
C32_Witness ==
  /\ last.name = "tick"
  /\ last.sent
  /\ last.missed = 6
  /\ Len(wire) = 1
  /\ wire[1].gesture = "OPEN"
  /\ wire[1].facing \in {"FRONT", "BACK"}
  /\ wire[1].cursor = cursor

\* the gesture of the message before message i on the same connection,
\* UNKNOWN for the first message of a connection
PrevOnConn(i) ==
  LET before == {j \in 1..(i - 1) : received[j].conn = received[i].conn}
  IN IF before = {} THEN "UNKNOWN"
     ELSE received[CHOOSE j \in before : \A k \in before : k <= j].gesture

\* C33: the click edge is kept per connection: a message fires a click
\* exactly when it is CLOSED and the message before it on the same
\* connection, if any, was not CLOSED, whatever arrived on other connections.
C33_EdgePerConnection ==
  received # <<>> =>
    ClickedAt = {i - 1 : i \in {j \in 1..Len(received) :
                                  /\ received[j].gesture = "CLOSED"
                                  /\ PrevOnConn(j) # "CLOSED"}}

\* C34: for each button the presses and releases issued alternate, starting
\* with a press: at no point of the calls made is a button pressed twice
\* without a release in between.
C34_PulsesNeverOverlap ==
  \A b \in Buttons : \A n \in 1..Len(robot) :
    Toggles("down", b, n) - Toggles("up", b, n) \in {0, 1}

\* no open or close event of any socket is still to be delivered
SocketsSettled == \A i \in Slots : wsState[i] \notin {"connecting", "closing"}

\* C35: once the pending open and close events have been delivered,
\* isMouseConnected is true exactly when the socket of the current session
\* is open.
C35_IndicatorAccurate ==
  SocketsSettled => (isMouseConnected <=> ChannelOpen)

Running(s) == s \notin {"IDLE", "ERROR"}

\* C36: while the session is ACTIVE a tick is pending; a step in which a
\* timeout fires and the session goes on, whether the frame was classified,
\* the landmarker threw or the video was not ready, leaves the timeout it
\* set pending; and in a session that stays ACTIVE ticks occur again and
\* again.
C36_LoopNeverStalls ==
  /\ [](statusRef = "ACTIVE" => timers # {})
  /\ [][(timers' # timers /\ Running(statusRef) /\ Running(statusRef')) =>
          /\ requestRef' \in timers'
          /\ Cardinality(timers') >= Cardinality(timers)]_vars
  /\ (<>[](statusRef = "ACTIVE")) => []<><<LoopRan>>_vars

\* the landmarker threw in a tick and the next tick is pending
C36_Witness ==
  /\ statusRef = "ACTIVE"
  /\ last.name = "tick"
  /\ last.thrown
  /\ requestRef \in timers

\* C37: a window in mini mode never runs a session: it holds no WebSocket
\* and no camera, runs no loop and no startTracking, whatever START and
\* STOP messages it receives, and a step in which it posts a message
\* changes nothing else in it.
C37_MiniNeverTracks ==
  /\ [](miniWin.isMiniMode =>
          /\ miniWin.stage = "none"
          /\ ~miniWin.socket
          /\ ~miniWin.camera
          /\ ~miniWin.loop)
  /\ [][bcOut' # bcOut => miniWin' = miniWin]_vars

====
